---------------------------- MODULE Spec2Model ----------------------------
(***************************************************************************)
(* Model of src/generate.py: GitCommitGenerator, which reads the staged    *)
(* diff, asks a text-generation model for a commit message, cleans the     *)
(* generated text and commits with it.                                     *)
(*                                                                         *)
(* A Python str is modelled as a sequence of one-character strings, so     *)
(* that replace, strip, split, startswith and slicing are computed         *)
(* character by character as the interpreter computes them.                *)
(***************************************************************************)
EXTENDS Integers, Sequences, FiniteSets

(***************************************************************************)
(* Bounds of the model.                                                    *)
(***************************************************************************)
\* Largest number of words the modelled text generator appends.
MaxTokens == 3

(***************************************************************************)
(* Program constants.                                                      *)
(***************************************************************************)
\* generate_commit_message: max_diff_length = 1000
max_diff_length == 1000

\* _clean_commit_message: return commit_message[:72]
MaxMessageLength == 72

\* The literal "chore: update code changes" (lines 54, 112 and 127).
Fallback ==
    <<"c","h","o","r","e",":"," ","u","p","d","a","t","e"," ","c","o","d","e"," ",
      "c","h","a","n","g","e","s">>

\* _clean_commit_message: the literal of f"chore: {commit_message}".
ChorePrefix == <<"c","h","o","r","e",":"," ">>

\* _clean_commit_message: conventional_prefixes, in the order of the list.
conventional_prefixes ==
    << <<"f","e","a","t">>, <<"f","i","x">>, <<"d","o","c","s">>, <<"s","t","y","l","e">>,
       <<"r","e","f","a","c","t","o","r">>, <<"t","e","s","t">>, <<"c","h","o","r","e">> >>

\* The prompt's text before {truncated_diff} (lines 62-65).
PromptHead ==
    <<"Y","o","u"," ","a","r","e"," ","a","n"," ","e","x","p","e","r","t"," ","a","t"," ",
      "g","e","n","e","r","a","t","i","n","g"," ","c","o","n","c","i","s","e"," ","a","n",
      "d"," ","m","e","a","n","i","n","g","f","u","l"," ","g","i","t"," ","c","o","m","m",
      "i","t"," ","m","e","s","s","a","g","e","s",".","\n","G","i","v","e","n"," ","t","h",
      "e"," ","f","o","l","l","o","w","i","n","g"," ","c","o","d","e"," ","c","h","a","n",
      "g","e","s",","," ","g","e","n","e","r","a","t","e"," ","a"," ","p","r","e","c","i",
      "s","e"," ","c","o","m","m","i","t"," ","m","e","s","s","a","g","e"," ","t","h","a",
      "t"," ","f","o","l","l","o","w","s"," ","c","o","n","v","e","n","t","i","o","n","a",
      "l"," ","c","o","m","m","i","t"," ","g","u","i","d","e","l","i","n","e","s",":","\n",
      "\n","C","o","d","e"," ","C","h","a","n","g","e","s",":","\n">>

\* The prompt's text after {truncated_diff} (lines 67-73).
PromptTail ==
    <<"\n","\n","G","e","n","e","r","a","t","e"," ","a"," ","c","o","m","m","i","t"," ","m",
      "e","s","s","a","g","e"," ","t","h","a","t",":","\n","1","."," ","S","t","a","r","t",
      "s"," ","w","i","t","h"," ","a"," ","c","o","n","v","e","n","t","i","o","n","a","l",
      " ","c","o","m","m","i","t"," ","p","r","e","f","i","x"," ","(","f","e","a","t",",",
      " ","f","i","x",","," ","d","o","c","s",","," ","s","t","y","l","e",","," ","r","e",
      "f","a","c","t","o","r",","," ","t","e","s","t",","," ","c","h","o","r","e",")","\n",
      "2","."," ","I","s"," ","u","n","d","e","r"," ","5","0"," ","c","h","a","r","a","c",
      "t","e","r","s","\n","3","."," ","C","l","e","a","r","l","y"," ","d","e","s","c","r",
      "i","b","e","s"," ","t","h","e"," ","c","h","a","n","g","e","s"," ","m","a","d","e",
      "\n","\n","C","o","m","m","i","t"," ","M","e","s","s","a","g","e",":">>

(***************************************************************************)
(* Python's str operations.                                                *)
(***************************************************************************)
\* The characters str.strip() removes, among those of the model's alphabet.
Whitespace == {" ", "\n", "\t", "\r"}

Min(S) == CHOOSE x \in S : \A y \in S : x <= y

\* s[:n] for n >= 0.
Slice(s, n) == SubSeq(s, 1, IF Len(s) < n THEN Len(s) ELSE n)

\* s.startswith(prefix)
startswith(s, prefix) ==
    /\ Len(prefix) <= Len(s)
    /\ \A k \in 1..Len(prefix) : s[k] = prefix[k]

\* old occurs in s at index i (1-based).
OccursAt(s, old, i) ==
    /\ i + Len(old) - 1 <= Len(s)
    /\ \A k \in 1..Len(old) : s[i + k - 1] = old[k]

\* s.find(old) + 1: the index of the first occurrence of old in s, 0 when none.
find(s, old) ==
    LET hits == {i \in 1..(Len(s) - Len(old) + 1) : OccursAt(s, old, i)}
    IN  IF hits = {} THEN 0 ELSE Min(hits)

\* old in s
Contains(s, old) == find(s, old) # 0

\* s.replace(old, ''): the occurrences of old are removed from left to right,
\* without overlap; an empty old leaves s as it is.
RECURSIVE replace(_, _)
replace(s, old) ==
    IF old = <<>> THEN s
    ELSE LET i == find(s, old)
         IN  IF i = 0 THEN s
             ELSE SubSeq(s, 1, i - 1) \o replace(SubSeq(s, i + Len(old), Len(s)), old)

\* s.strip()
strip(s) ==
    IF \A i \in 1..Len(s) : s[i] \in Whitespace THEN <<>>
    ELSE LET first == CHOOSE i \in 1..Len(s) :
                          /\ s[i] \notin Whitespace
                          /\ \A j \in 1..(i - 1) : s[j] \in Whitespace
             last  == CHOOSE i \in 1..Len(s) :
                          /\ s[i] \notin Whitespace
                          /\ \A j \in (i + 1)..Len(s) : s[j] \in Whitespace
         IN  SubSeq(s, first, last)

\* s.split('\n'): the pieces between the newlines, empty pieces included.
RECURSIVE split(_)
split(s) ==
    LET i == find(s, <<"\n">>)
    IN  IF i = 0 THEN <<s>>
        ELSE <<SubSeq(s, 1, i - 1)>> \o split(SubSeq(s, i + 1, Len(s)))

\* [line.strip() for line in cleaned_text.split('\n') if line.strip()]
NonBlankLines(cleaned_text) ==
    LET pieces == split(cleaned_text)
        stripped == [k \in 1..Len(pieces) |-> strip(pieces[k])]
    IN  SelectSeq(stripped, LAMBDA line : line # <<>>)

(***************************************************************************)
(* GitCommitGenerator._clean_commit_message                                *)
(***************************************************************************)
\* Candidate with the last line taken instead of the first.
Candidate_last(lines) == IF lines # <<>> THEN lines[Len(lines)] ELSE Fallback

\* Candidate with a line of fewer than 10 characters replaced by the fallback.
Candidate_min_length(lines) ==
    IF lines # <<>> /\ Len(lines[1]) >= 10 THEN lines[1] ELSE Fallback

\* lines[0] if lines else "chore: update code changes"
Candidate(lines) == IF lines # <<>> THEN lines[1] ELSE Fallback

\* HasConventionalPrefix with == written for startswith.
HasConventionalPrefix_equals(commit_message) ==
    \E k \in 1..Len(conventional_prefixes) : commit_message = conventional_prefixes[k]

\* any(commit_message.startswith(prefix) for prefix in conventional_prefixes)
HasConventionalPrefix(commit_message) ==
    \E k \in 1..Len(conventional_prefixes) :
        startswith(commit_message, conventional_prefixes[k])

\* The prefix rule and the length limit applied to the candidate.
Format(commit_message) ==
    Slice(IF ~HasConventionalPrefix(commit_message)
            THEN ChorePrefix \o commit_message
            ELSE commit_message,
          MaxMessageLength)

\* generated_text.replace(prompt, '').strip()
CleanedText(generated_text, prompt) == strip(replace(generated_text, prompt))

_clean_commit_message(generated_text, prompt) ==
    Format(Candidate(NonBlankLines(CleanedText(generated_text, prompt))))

(***************************************************************************)
(* The inputs of a run.                                                    *)
(***************************************************************************)
\* n copies of the character c.
Repeat(c, n) == [i \in 1..n |-> c]

\* Outputs of `git diff --cached`: nothing staged, a short diff, and a diff
\* one character longer than max_diff_length.
Diffs == { <<>>, <<"+","x","\n">>, Repeat("d", max_diff_length + 1) }

\* A word that fills a "chore: " message up to one character before the limit.
LongWord == Repeat("w", MaxMessageLength - Len(ChorePrefix) - 1)

\* The pieces the modelled generator composes its continuation from.
Tokens ==
    { <<"f","i","x">>, <<":"," ">>, <<" ">>, <<"\n">>, <<"e","d">>, LongWord }

RECURSIVE Continuations(_)
Continuations(n) ==
    IF n = 0 THEN { <<>> }
    ELSE Continuations(n - 1) \cup
         { c \o t : c \in Continuations(n - 1), t \in Tokens }

\* What tokenizer.decode(output[0]) can begin with: the whole prompt, the
\* prompt cut short by truncation=True, max_length=512, or no echo at all.
Echoes(prompt) == { prompt, SubSeq(prompt, 1, Len(prompt) - Len(PromptTail)), <<>> }

GeneratedTexts(prompt) ==
    { e \o c : e \in Echoes(prompt), c \in Continuations(MaxTokens) }

(***************************************************************************)
(* The state of a run of main().                                           *)
(***************************************************************************)
VARIABLES
    pc,              \* the statement main() / auto_commit() is at
    model,           \* self.model and self.tokenizer: "None" or "loaded"
    diff,            \* auto_commit: diff
    prompt,          \* generate_commit_message: prompt
    generated_text,  \* generate_commit_message: generated_text
    commit_message,  \* auto_commit: commit_message
    raised,          \* the exception raised last, "" when none
    printed,         \* the lines written by print, oldest first
    gen_calls,       \* invocations of generate_commit_message
    oracle_calls,    \* invocations of self.model.generate
    commits          \* the messages `git commit -m` was run with

vars == <<pc, model, diff, prompt, generated_text, commit_message, raised, printed,
          gen_calls, oracle_calls, commits>>

Line(text, arg) == [text |-> text, arg |-> arg]

print(text, arg) == printed' = Append(printed, Line(text, arg))

Init ==
    /\ pc = "main"
    /\ model = "None"
    /\ diff = <<>>
    /\ prompt = <<>>
    /\ generated_text = <<>>
    /\ commit_message = <<>>
    /\ raised = ""
    /\ printed = <<>>
    /\ gen_calls = 0
    /\ oracle_calls = 0
    /\ commits = <<>>

\* GitCommitGenerator.__init__: the model and the tokenizer load, or loading
\* raises and both are set to None.
__init__ ==
    /\ pc = "main"
    /\ \/ /\ model' = "loaded"
          /\ print("Loaded model: ", <<"g","p","t","2">>)
       \/ /\ model' = "None"
          /\ print("Model loading error: ", <<>>)
    /\ pc' = "get_git_diff"
    /\ UNCHANGED <<diff, prompt, generated_text, commit_message, raised,
                   gen_calls, oracle_calls, commits>>

\* get_git_diff without its except clause: CalledProcessError propagates too.
get_git_diff_uncaught ==
    /\ pc = "get_git_diff"
    /\ \/ \E d \in Diffs :
            /\ diff' = d
            /\ pc' = "check_diff"
            /\ UNCHANGED <<raised, printed>>
       \/ /\ raised' \in {"CalledProcessError", "FileNotFoundError"}
          /\ pc' = "Traceback"
          /\ UNCHANGED <<diff, printed>>
    /\ UNCHANGED <<model, prompt, generated_text, commit_message,
                   gen_calls, oracle_calls, commits>>

\* get_git_diff, called from auto_commit: check_output returns git's output,
\* raises CalledProcessError (non-zero exit status), or raises
\* FileNotFoundError (no git executable), which no except clause catches.
get_git_diff ==
    /\ pc = "get_git_diff"
    /\ \/ \E d \in Diffs :
            /\ diff' = d
            /\ pc' = "check_diff"
            /\ UNCHANGED <<raised, printed>>
       \/ /\ raised' = "CalledProcessError"
          /\ print("Error retrieving git diff", <<>>)
          /\ diff' = <<>>
          /\ pc' = "check_diff"
       \/ /\ raised' = "FileNotFoundError"
          /\ pc' = "Traceback"
          /\ UNCHANGED <<diff, printed>>
    /\ UNCHANGED <<model, prompt, generated_text, commit_message,
                   gen_calls, oracle_calls, commits>>

\* check_diff with the return after the notice left out.
check_diff_without_return ==
    /\ pc = "check_diff"
    /\ IF diff = <<>>
         THEN print("No changes to commit.", <<>>)
         ELSE UNCHANGED printed
    /\ pc' = "generate_commit_message"
    /\ gen_calls' = gen_calls + 1
    /\ UNCHANGED <<model, diff, prompt, generated_text, commit_message, raised,
                   oracle_calls, commits>>

\* auto_commit: if not diff: print("No changes to commit."); return
check_diff ==
    /\ pc = "check_diff"
    /\ IF diff = <<>>
         THEN /\ print("No changes to commit.", <<>>)
              /\ pc' = "NoChanges"
              /\ UNCHANGED gen_calls
         ELSE /\ pc' = "generate_commit_message"
              /\ gen_calls' = gen_calls + 1
              /\ UNCHANGED printed
    /\ UNCHANGED <<model, diff, prompt, generated_text, commit_message, raised,
                   oracle_calls, commits>>

\* prompt = f"""...{truncated_diff}..."""
BuildPrompt(truncated_diff) == PromptHead \o truncated_diff \o PromptTail

\* generate_commit_message up to the prompt: the early return of the fallback
\* message, or the truncated diff put into the prompt.
generate_commit_message ==
    /\ pc = "generate_commit_message"
    /\ IF diff = <<>> \/ model = "None"
         THEN /\ commit_message' = Fallback
              /\ pc' = "commit"
              /\ UNCHANGED prompt
         ELSE /\ prompt' = BuildPrompt(Slice(diff, max_diff_length))
              /\ pc' = "tokenizer"
              /\ UNCHANGED commit_message
    /\ UNCHANGED <<model, diff, generated_text, raised, printed,
                   gen_calls, oracle_calls, commits>>

\* except_Exception with the exception left to propagate.
except_Exception_reraise(what) ==
    /\ raised' = what
    /\ pc' = "Traceback"
    /\ UNCHANGED <<printed, commit_message>>

\* except Exception as e: print(...); return "chore: update code changes"
except_Exception(what) ==
    /\ raised' = what
    /\ print("Commit message generation error: ", <<>>)
    /\ commit_message' = Fallback
    /\ pc' = "commit"

\* inputs = self.tokenizer(prompt, ...)
tokenizer_encode ==
    /\ pc = "tokenizer"
    /\ \/ /\ pc' = "generate"
          /\ UNCHANGED <<raised, printed, commit_message>>
       \/ except_Exception("tokenizer")
    /\ UNCHANGED <<model, diff, prompt, generated_text,
                   gen_calls, oracle_calls, commits>>

\* output = self.model.generate(...)
model_generate ==
    /\ pc = "generate"
    /\ oracle_calls' = oracle_calls + 1
    /\ \/ /\ pc' = "decode"
          /\ UNCHANGED <<raised, printed, commit_message>>
       \/ except_Exception("generate")
    /\ UNCHANGED <<model, diff, prompt, generated_text, gen_calls, commits>>

\* generated_text = self.tokenizer.decode(output[0], skip_special_tokens=True)
tokenizer_decode ==
    /\ pc = "decode"
    /\ \/ /\ \E text \in GeneratedTexts(prompt) : generated_text' = text
          /\ pc' = "clean"
          /\ UNCHANGED <<raised, printed, commit_message>>
       \/ /\ except_Exception("decode")
          /\ UNCHANGED generated_text
    /\ UNCHANGED <<model, diff, prompt, gen_calls, oracle_calls, commits>>

\* commit_message = self._clean_commit_message(generated_text, prompt)
\* return commit_message
clean_and_return ==
    /\ pc = "clean"
    /\ commit_message' = _clean_commit_message(generated_text, prompt)
    /\ pc' = "commit"
    /\ UNCHANGED <<model, diff, prompt, generated_text, raised, printed,
                   gen_calls, oracle_calls, commits>>

\* commit without its except clause: CalledProcessError propagates too.
commit_uncaught ==
    /\ pc = "commit"
    /\ commits' = Append(commits, commit_message)
    /\ \/ /\ print("Committed with message: ", commit_message)
          /\ pc' = "Committed"
          /\ UNCHANGED raised
       \/ /\ raised' \in {"CalledProcessError", "FileNotFoundError"}
          /\ pc' = "Traceback"
          /\ UNCHANGED printed
    /\ UNCHANGED <<model, diff, prompt, generated_text, commit_message,
                   gen_calls, oracle_calls>>

\* commit run with the fallback message instead of commit_message.
commit_fixed_message ==
    /\ pc = "commit"
    /\ commits' = Append(commits, Fallback)
    /\ \/ /\ print("Committed with message: ", commit_message)
          /\ pc' = "Committed"
          /\ UNCHANGED raised
       \/ /\ raised' = "CalledProcessError"
          /\ print("Commit failed.", <<>>)
          /\ pc' = "CommitFailed"
       \/ /\ raised' = "FileNotFoundError"
          /\ pc' = "Traceback"
          /\ UNCHANGED printed
    /\ UNCHANGED <<model, diff, prompt, generated_text, commit_message,
                   gen_calls, oracle_calls>>

\* auto_commit: subprocess.run(['git', 'commit', '-m', commit_message],
\* check=True) succeeds, raises CalledProcessError, or raises
\* FileNotFoundError, which no except clause catches.
commit ==
    /\ pc = "commit"
    /\ commits' = Append(commits, commit_message)
    /\ \/ /\ print("Committed with message: ", commit_message)
          /\ pc' = "Committed"
          /\ UNCHANGED raised
       \/ /\ raised' = "CalledProcessError"
          /\ print("Commit failed.", <<>>)
          /\ pc' = "CommitFailed"
       \/ /\ raised' = "FileNotFoundError"
          /\ pc' = "Traceback"
          /\ UNCHANGED printed
    /\ UNCHANGED <<model, diff, prompt, generated_text, commit_message,
                   gen_calls, oracle_calls>>

Next ==
    \/ __init__
    \/ get_git_diff
    \/ check_diff
    \/ generate_commit_message
    \/ tokenizer_encode
    \/ model_generate
    \/ tokenizer_decode
    \/ clean_and_return
    \/ commit

Spec == Init /\ [][Next]_vars

(***************************************************************************)
(* Properties.                                                             *)
(***************************************************************************)
\* _clean_commit_message has just returned commit_message for generated_text.
Sanitized == pc = "commit" /\ model = "loaded" /\ raised = ""

\* The non-blank lines left of generated_text once the prompt is removed.
RemainingLines == NonBlankLines(CleanedText(generated_text, prompt))

\* The candidate's text before its first ':' is one of the conventional types.
TypeBeforeColon(candidate) ==
    \E k \in 1..Len(conventional_prefixes) :
        startswith(candidate, conventional_prefixes[k] \o <<":">>)

\* The run has ended without an uncaught exception.
Terminal == {"NoChanges", "Committed", "CommitFailed"}

\* C1: the message the sanitizer returns is non-empty, begins with one of the
\* conventional types immediately followed by ": ", and has at most 72
\* characters.
C1_ConventionalFormat ==
    Sanitized =>
        /\ commit_message # <<>>
        /\ \E k \in 1..Len(conventional_prefixes) :
               startswith(commit_message, conventional_prefixes[k] \o <<":", " ">>)
        /\ Len(commit_message) <= MaxMessageLength

\* C2: when the captured diff is empty the run goes from the check to NoChanges,
\* printing "No changes to commit.", stops there, and neither
\* generate_commit_message, model.generate nor git commit is ever invoked.
C2_EmptyDiffNoChanges ==
    /\ [][(pc = "check_diff" /\ diff = <<>>) =>
            /\ pc' = "NoChanges"
            /\ printed' = Append(printed, Line("No changes to commit.", <<>>))]_vars
    /\ [][pc # "NoChanges"]_vars
    /\ [](pc = "NoChanges" =>
            /\ diff = <<>>
            /\ printed[Len(printed)] = Line("No changes to commit.", <<>>))
    /\ [](diff = <<>> => gen_calls = 0 /\ oracle_calls = 0 /\ commits = <<>>)

\* C2 witness: a run with an empty diff has ended in NoChanges.
C2_Witness == pc = "NoChanges" /\ raised = "" /\ model = "loaded"

\* C3: for a non-empty diff, when the model failed to load or the tokenizer,
\* the generation or the decoding raised, generate_commit_message returns
\* exactly "chore: update code changes" and the exception goes no further.
C3_GenerationFallback ==
    /\ (raised \in {"tokenizer", "generate", "decode"}) =>
           /\ pc \in {"commit", "Committed"}
           /\ commit_message = Fallback
    /\ (model = "None" /\ gen_calls > 0 /\ pc # "generate_commit_message") =>
           /\ pc \in {"commit", "Committed", "CommitFailed", "Traceback"}
           /\ pc = "Traceback" => commits # <<>>
           /\ commit_message = Fallback
    /\ gen_calls > 0 => diff # <<>>

\* C3 witness: model.generate raised and the fallback message was returned.
C3_Witness == pc = "commit" /\ raised = "generate" /\ diff # <<>>

\* C4 as stated: a returned message fed back as the raw text, with the same
\* prompt, comes back unchanged.
C4_Idempotent ==
    Sanitized => _clean_commit_message(commit_message, prompt) = commit_message

\* C4 as amended: a returned message that does not contain the prompt, fed back
\* as the raw text, comes back with the whitespace at its end removed, so
\* unchanged when it does not end in whitespace, and never with a second prefix.
C4_IdempotentUpToStrip ==
    (Sanitized /\ ~Contains(commit_message, prompt)) =>
        /\ _clean_commit_message(commit_message, prompt) = strip(commit_message)
        /\ commit_message[Len(commit_message)] \notin Whitespace =>
               _clean_commit_message(commit_message, prompt) = commit_message

\* C4 witness: the cut at 72 characters left a space at the end of a message.
C4_Witness ==
    /\ Sanitized
    /\ Len(commit_message) = MaxMessageLength
    /\ commit_message[Len(commit_message)] = " "
    /\ _clean_commit_message(commit_message, prompt) # commit_message

\* C5 as stated: with two or more non-blank lines left, the message is made
\* from the last of them.
C5_LastLine ==
    (Sanitized /\ Len(RemainingLines) >= 2) =>
        commit_message = Format(RemainingLines[Len(RemainingLines)])

\* C5 as amended: with two or more non-blank lines left, the message is made
\* from the first of them.
C5_FirstLine ==
    (Sanitized /\ Len(RemainingLines) >= 2) =>
        commit_message = Format(RemainingLines[1])

\* C5 witness: two lines are left that give different messages.
C5_Witness ==
    /\ Sanitized
    /\ Len(RemainingLines) >= 2
    /\ Format(RemainingLines[1]) # Format(RemainingLines[Len(RemainingLines)])

\* C6 as stated: a candidate that is missing or shorter than 10 characters
\* gives the fallback message.
C6_ShortGivesFallback ==
    (Sanitized /\ (RemainingLines = <<>> \/ Len(RemainingLines[1]) < 10)) =>
        commit_message = Fallback

\* C6 as amended: only a missing candidate (no non-blank line left) gives the
\* fallback message; a candidate shorter than 10 characters is kept and
\* formatted like any other.
C6_OnlyMissingGivesFallback ==
    Sanitized =>
        /\ RemainingLines = <<>> => commit_message = Fallback
        /\ (RemainingLines # <<>> /\ Len(RemainingLines[1]) < 10) =>
               /\ commit_message = Format(RemainingLines[1])
               /\ commit_message # Fallback

\* C6 witness: a candidate of fewer than 10 characters was formatted.
C6_Witness ==
    /\ Sanitized
    /\ RemainingLines # <<>>
    /\ Len(RemainingLines[1]) < 10
    /\ ~HasConventionalPrefix(RemainingLines[1])

\* C7: the candidate is returned without "chore: " exactly when its text
\* before the first ':' is a conventional type; every other candidate is
\* returned as "chore: " and the candidate, cut to 72 characters.
C7_PrefixRule ==
    Sanitized =>
        LET candidate == Candidate(RemainingLines)
        IN  IF TypeBeforeColon(candidate)
              THEN commit_message = Slice(candidate, MaxMessageLength)
              ELSE commit_message = Slice(ChorePrefix \o candidate, MaxMessageLength)

\* C8 as stated: every failure of git in get_git_diff gives the empty string
\* and none reaches auto_commit.
C8_EveryFailureSwallowed ==
    /\ (pc = "Traceback" => commits # <<>>)
    /\ (pc = "check_diff" /\ raised # "") => diff = <<>>

\* C8 as amended: a non-zero exit of git (CalledProcessError) gives the empty
\* string after "Error retrieving git diff" is printed; only a missing git
\* executable (FileNotFoundError) leaves get_git_diff as an exception.
C8_NonZeroExitSwallowed ==
    /\ (pc = "check_diff" /\ raised # "") =>
           /\ raised = "CalledProcessError"
           /\ diff = <<>>
           /\ printed[Len(printed)] = Line("Error retrieving git diff", <<>>)
    /\ (pc = "Traceback" /\ commits = <<>>) =>
           /\ raised = "FileNotFoundError"
           /\ gen_calls = 0

\* C8 witness: git exited non-zero and get_git_diff returned the empty string.
C8_Witness == pc = "check_diff" /\ raised = "CalledProcessError" /\ diff = <<>>

\* C9 as stated: no run ends with an uncaught exception.
C9_NeverAbnormal == pc # "Traceback"

\* The statements of a run in the order they are reached.
Order ==
    <<"main", "get_git_diff", "check_diff", "generate_commit_message", "tokenizer",
      "generate", "decode", "clean", "commit">>

\* The position of statement p in Order; the ends of a run come after all.
Rank(p) ==
    IF \E k \in 1..Len(Order) : Order[k] = p
      THEN CHOOSE k \in 1..Len(Order) : Order[k] = p
      ELSE Len(Order) + 1

\* A run that has not ended can take a step. At "clean" the step is the call
\* of _clean_commit_message, which returns a message for every text.
CanStep == pc = "clean" \/ ENABLED Next

\* C9 as amended: every run ends, in one of NoChanges, Committed and
\* CommitFailed or with the uncaught FileNotFoundError of a git executable
\* that cannot be started: a run that has not ended can take a step, every
\* step moves forward in Order, no other failure ends a run abnormally, and
\* nothing runs after the end.
C9_EndsInTerminalOrNoGit ==
    /\ [](pc \in Terminal \cup {"Traceback"} \/ CanStep)
    /\ [][Rank(pc) < Rank(pc')]_vars
    /\ [](pc = "Traceback" => raised = "FileNotFoundError")
    /\ [][pc \notin Terminal \cup {"Traceback"}]_vars

\* C9 witness: the commit step found no git executable after a generation
\* failure had been turned into the fallback message.
C9_Witness ==
    /\ pc = "Traceback"
    /\ commits = <<Fallback>>
    /\ printed[Len(printed)] = Line("Commit message generation error: ", <<>>)

\* C10: git commit is run at most once, only once generate_commit_message has
\* returned a message for a non-empty diff, and with that message; after a
\* failed commit nothing is generated or committed again.
C10_CommitOnce ==
    /\ [](/\ Len(commits) <= 1
          /\ commits # <<>> =>
                 /\ diff # <<>>
                 /\ gen_calls = 1
                 /\ commit_message # <<>>
                 /\ commits[1] = commit_message
                 /\ pc \in Terminal \cup {"Traceback"})
    /\ [][pc = "commit" => pc' # "commit"]_vars
    /\ [][pc = "CommitFailed" => UNCHANGED <<gen_calls, oracle_calls, commits>>]_vars

\* C10 witness: the commit of a generated message failed.
C10_Witness ==
    /\ pc = "CommitFailed"
    /\ commits = <<commit_message>>
    /\ commit_message # Fallback


=============================================================================
